---- MODULE Spec2Model ----
(***************************************************************************)
(* Quiz grading and lesson-unlock progression of the relational backend:   *)
(* the lessons, activities and progress tables, the CRUD handlers of       *)
(* api/routes/relational.py that write them, and submit_quiz of            *)
(* api/routers/quiz_ai.py.                                                 *)
(*                                                                         *)
(* Rows live in sequences; a row's id is its index (autoincrement primary  *)
(* keys, rows are never physically removed).  Scores and pass scores are   *)
(* kept in hundredths of a percent point, so 66.67 is 6667 and 100.0 is    *)
(* 10000; Python's None / SQL NULL in an integer or float column is None.  *)
(* Titles, contents and timestamps are not read by any modelled decision   *)
(* and are left out of the rows.                                           *)
(***************************************************************************)
EXTENDS Integers, Sequences, FiniteSets, TLC

\* ---------------------------------------------------------------- bounds
\* Rows the lessons, activities and progress tables hold together
MaxRows == 3

\* Rows of the modules table
MaxModules == 2

\* ------------------------------------------------------------- constants
None == -1

\* pass_score = float(activity.quiz_pass_score or 70.0)
DefaultPassScore == 7000

\* ---------------------------------------------------------------- inputs
Users == {"u1"}
ModuleIds == {1, 2}
Slugs == {"a", "b"}
OrderIndexes == {0, 1}

\* A stored question is reduced to its "answerIndex" entry.  The JSON column
\* takes whatever list create_activity was given, so the entry may be an int,
\* a string, or absent.
AnswerIndex(v) == [kind |-> "int", val |-> v]
AnswerIndexStr(s) == [kind |-> "str", val |-> s]
AnswerIndexMissing == [kind |-> "missing", val |-> 0]

QuizWellFormed == << AnswerIndex(1), AnswerIndex(2), AnswerIndex(0) >>

\* quiz_pass_score values sent to create_activity: omitted, 0, 66.67
PassScores == {None, 0, 6667}

\* Payloads sent to POST /activities.  ActivityCreate rejects an explicit empty
\* or non-list quiz_questions for type quiz but lets the field be omitted, so a
\* quiz row holds either NULL or a non-empty list; both NULL and [] read as []
\* through "activity.quiz_questions or []" and are written <<>> here.
ActivityPayloads ==
    {[type |-> "content", quiz_questions |-> <<>>, quiz_pass_score |-> None]}
    \cup [type : {"quiz"}, quiz_questions : {QuizWellFormed},
          quiz_pass_score : PassScores]

\* Inputs of POST /progress: entity_type, and status with the score sent along
UpsertEntityTypes == {"lesson", "activity", "course"}
UpsertStatuses ==
    {[status |-> "completed", score |-> 5000],
     [status |-> "in_progress", score |-> None],
     [status |-> "paused", score |-> None]}

\* answers lists sent to submit_quiz: none, all right, two right, none right,
\* one too short
AnswerLists == { <<>>, <<1, 2, 0>>, <<1, 2, 3>>, <<0, 0, 1>>, <<1, 0>> }

\* Request slots of submit_quiz calls that are served concurrently (FastAPI runs
\* a "def" handler on a worker thread, each call with a session of its own)
Handlers == {1, 2}

VARIABLES subjects, modules, lessons, activities, progress, last, inflight

vars == <<subjects, modules, lessons, activities, progress, last, inflight>>

\* Subject and module rows that are not soft-deleted: what create_module,
\* create_lesson and update_lesson accept as a parent
ExistingSubjects == {i \in 1..Len(subjects) : ~subjects[i].is_deleted}
ExistingModules == {i \in 1..Len(modules) : ~modules[i].is_deleted}

\* ------------------------------------------------------- pure functions

\* int(questions[idx]["answerIndex"]): an int converts to itself, a string of
\* digits to its value; any other string raises ValueError and an absent key
\* raises KeyError.  ok = FALSE stands for the raised exception.
StrDigits == [s \in {"0", "1", "2", "3"} |->
                CASE s = "0" -> 0 [] s = "1" -> 1 [] s = "2" -> 2 [] s = "3" -> 3]

IntOf(q) ==
    CASE q.kind = "int" -> [ok |-> TRUE, val |-> q.val]
      [] q.kind = "str" /\ q.val \in DOMAIN StrDigits ->
            [ok |-> TRUE, val |-> StrDigits[q.val]]
      [] OTHER -> [ok |-> FALSE, val |-> 0]

\* round(n / d) to the nearest integer, ties to the even neighbour (Python 3).
RoundHalfEven(n, d) ==
    LET q == n \div d
        r == n % d
    IN  IF 2 * r > d THEN q + 1
        ELSE IF 2 * r < d THEN q
        ELSE IF q % 2 = 0 THEN q ELSE q + 1

\* score = round((correct / total) * 100.0, 2) if total else 0.0
Score(correct, total) ==
    IF total = 0 THEN 0 ELSE RoundHalfEven(correct * 10000, total)

\* correct: the try/except loop over enumerate(payload.answers)
Grade(questions, answers) ==
    Cardinality({idx \in 1..Len(answers) :
                    /\ IntOf(questions[idx]).ok
                    /\ answers[idx] = IntOf(questions[idx]).val})

\* float(activity.quiz_pass_score or 70.0): None and 0.0 are both falsy
PassScoreOf(activity) ==
    IF activity.quiz_pass_score = None \/ activity.quiz_pass_score = 0
    THEN DefaultPassScore
    ELSE activity.quiz_pass_score

\* Mapped attributes of class Progress (its columns and those of TimestampMixin).
ProgressAttributes ==
    {"id", "user_id", "subject_id", "module_id", "lesson_id", "activity_id",
     "completed", "score", "created_at", "updated_at", "is_deleted"}

NoRow ==
    [user_id |-> "", subject_id |-> None, module_id |-> None, lesson_id |-> None,
     activity_id |-> None, completed |-> FALSE, score |-> None, is_deleted |-> FALSE]

\* Progress(**kwargs): the declarative constructor of declarative_base() raises
\* TypeError for a keyword that is no attribute of the class (ok = FALSE);
\* otherwise it sets the given attributes, is_deleted taking its default.
Progress(kwargs) ==
    IF DOMAIN kwargs \subseteq ProgressAttributes
    THEN [ok |-> TRUE,
          row |-> [user_id |-> kwargs.user_id, subject_id |-> kwargs.subject_id,
                   module_id |-> kwargs.module_id, lesson_id |-> kwargs.lesson_id,
                   activity_id |-> kwargs.activity_id, completed |-> kwargs.completed,
                   score |-> kwargs.score, is_deleted |-> FALSE]]
    ELSE [ok |-> FALSE, row |-> NoRow]

\* Keyword arguments submit_quiz passes to Progress(...), the same keywords at
\* each of its three calls.  deleted_at is among them and is no attribute of
\* Progress (the soft-delete column is is_deleted), so each call raises.
SubmitKwargs(user_id, lesson_id, activity_id, completed, score) ==
    [user_id |-> user_id, subject_id |-> None, module_id |-> None,
     lesson_id |-> lesson_id, activity_id |-> activity_id,
     completed |-> completed, score |-> score,
     created_at |-> "utcnow", updated_at |-> "utcnow", deleted_at |-> None]

\* Keyword arguments upsert_progress passes to Progress(...)
UpsertKwargs(user_id, refs, completed, score) ==
    [user_id |-> user_id, subject_id |-> refs.subject_id, module_id |-> refs.module_id,
     lesson_id |-> refs.lesson_id, activity_id |-> refs.activity_id,
     completed |-> completed, score |-> score]

\* _get_next_lesson: ids of the rows the query may return.  The filter is on
\* module_id and order_index only; rows that tie on the smallest order_index
\* come back in an order the database chooses.
NextLessonCandidates(ls, current) ==
    {i \in 1..Len(ls) : /\ ls[i].module_id = current.module_id
                        /\ ls[i].order_index > current.order_index}

GetNextLesson(ls, current) ==
    LET c == NextLessonCandidates(ls, current)
    IN  {i \in c : \A j \in c : ls[i].order_index <= ls[j].order_index}

\* ------------------------------------------------------------ submit_quiz

NoBody ==
    [activity_id |-> None, lesson_id |-> None, total_questions |-> None,
     correct |-> None, score |-> None, passed |-> FALSE,
     unlocked_next_lesson_id |-> None]

NoLocals ==
    [graded |-> FALSE, correct |-> None, total |-> None, score |-> None,
     pass_score |-> None, passed |-> FALSE]

\* What one call leaves behind: the HTTP status, the rows its commit wrote, the
\* response body (NoBody unless the status is 200) and the handler's locals
\* after grading.
Outcome(status, added, body, locals) ==
    [status |-> status, added |-> added, body |-> body, locals |-> locals]

\* The passing branch: the lesson-level row, then the unlock marker for the
\* next lesson, then commit.  attempt is the row already added to the session.
SubmitPassed(ls, user_id, aid, activity, attempt, loc) ==
    LET lesson_progress ==
            Progress(SubmitKwargs(user_id, activity.lesson_id, None, TRUE, loc.score))
        body(unlocked) ==
            [activity_id |-> aid, lesson_id |-> activity.lesson_id,
             total_questions |-> loc.total, correct |-> loc.correct,
             score |-> loc.score, passed |-> TRUE,
             unlocked_next_lesson_id |-> unlocked]
        current == {i \in 1..Len(ls) : i = activity.lesson_id}
        nexts == UNION {GetNextLesson(ls, ls[i]) : i \in current}
    IN  IF ~lesson_progress.ok
        THEN {Outcome(500, <<>>, NoBody, loc)}
        ELSE IF nexts = {}
        THEN {Outcome(200, <<attempt, lesson_progress.row>>, body(None), loc)}
        ELSE {LET unlock_marker ==
                      Progress(SubmitKwargs(user_id, n, None, FALSE, None))
              IN  IF ~unlock_marker.ok
                  THEN Outcome(500, <<>>, NoBody, loc)
                  ELSE Outcome(200,
                               <<attempt, lesson_progress.row, unlock_marker.row>>,
                               body(n), loc)
              : n \in nexts}

\* SubmitGraded with the attempt row written straight to the table and
\* committed before the rest of the handler runs
SubmitGradedAttemptCommitted(ls, user_id, aid, activity, answers) ==
    LET score == Score(Grade(activity.quiz_questions, answers),
                       Len(activity.quiz_questions))
        attempt == [NoRow EXCEPT !.user_id = user_id, !.activity_id = aid,
                                 !.completed = TRUE, !.score = score]
    IN  {Outcome(500, <<attempt>>, NoBody,
                 [graded |-> TRUE, correct |-> Grade(activity.quiz_questions, answers),
                  total |-> Len(activity.quiz_questions), score |-> score,
                  pass_score |-> PassScoreOf(activity),
                  passed |-> score >= PassScoreOf(activity)])}

\* The handler from the grading loop on: grade, build the rows, commit.
SubmitGraded(ls, user_id, aid, activity, answers) ==
    LET questions == activity.quiz_questions
        correct == Grade(questions, answers)
        total == Len(questions)
        score == Score(correct, total)
        pass_score == PassScoreOf(activity)
        passed == score >= pass_score
        loc == [graded |-> TRUE, correct |-> correct, total |-> total,
                score |-> score, pass_score |-> pass_score, passed |-> passed]
        attempt == Progress(SubmitKwargs(user_id, None, aid, TRUE, score))
    IN  IF ~attempt.ok
        THEN {Outcome(500, <<>>, NoBody, loc)}
        ELSE IF ~passed
        THEN {Outcome(200, <<attempt.row>>,
                      [activity_id |-> aid, lesson_id |-> activity.lesson_id,
                       total_questions |-> total, correct |-> correct,
                       score |-> score, passed |-> FALSE,
                       unlocked_next_lesson_id |-> None],
                      loc)}
        ELSE SubmitPassed(ls, user_id, aid, activity, attempt.row, loc)

\* SubmitQuiz with the length check written as "more answers than questions":
\* a short answers list is graded instead of rejected.
SubmitQuizShortAccepted(acts, ls, user_id, aid, answers) ==
    LET found == {i \in 1..Len(acts) : i = aid /\ acts[i].type = "quiz"}
    IN  IF found = {}
        THEN {Outcome(404, <<>>, NoBody, NoLocals)}
        ELSE IF Len(answers) > Len(acts[aid].quiz_questions)
        THEN {Outcome(400, <<>>, NoBody, NoLocals)}
        ELSE SubmitGraded(ls, user_id, aid, acts[aid], answers)

\* The handler after its activity query returned a row: the length check,
\* then grading and the writes.
SubmitFound(ls, user_id, aid, activity, answers) ==
    IF Len(answers) # Len(activity.quiz_questions)
    THEN {Outcome(400, <<>>, NoBody, NoLocals)}
    ELSE SubmitGraded(ls, user_id, aid, activity, answers)

\* submit_quiz(payload, session): the outcomes the handler can end in.  The
\* activity query filters on id and type only.  The session is a Session of
\* sessionmaker(autocommit=False): rows added to it reach the table only at
\* session.commit(), and an exception before it leaves the table as it was
\* and is answered with HTTP 500.
SubmitQuiz(acts, ls, user_id, aid, answers) ==
    LET found == {i \in 1..Len(acts) : i = aid /\ acts[i].type = "quiz"}
    IN  IF found = {}
        THEN {Outcome(404, <<>>, NoBody, NoLocals)}
        ELSE SubmitFound(ls, user_id, aid, acts[aid], answers)

\* ---------------------------------------------------------------- state

\* last: the most recent request and what it returned
Call(op, status) == [op |-> op, status |-> status]

\* What a read or an update leaves in last: the id it was sent, the status,
\* and for a list or a lookup the ids of the rows in the response
Return(op, id, status, items) ==
    [op |-> op, id |-> id, status |-> status, items |-> items]

RowCount == Len(lessons) + Len(activities) + Len(progress)

NoActivity ==
    [lesson_id |-> None, type |-> "", order_index |-> 0, quiz_questions |-> <<>>,
     quiz_pass_score |-> None, is_deleted |-> FALSE]

\* A request slot no call has taken yet
NoRequest ==
    [pc |-> "idle", user_id |-> "", activity_id |-> None, answers |-> <<>>,
     activity |-> NoActivity, after |-> {}, status |-> 0, body |-> NoBody,
     locals |-> NoLocals, first |-> 0, added |-> <<>>]

\* The tables when lessons are first authored: a subject with one module in
\* it, no lessons, activities or progress entries.
Init ==
    /\ subjects = <<[slug |-> "a", is_deleted |-> FALSE]>>
    /\ modules = <<[subject_id |-> 1, slug |-> "a", is_deleted |-> FALSE]>>
    /\ lessons = <<>>
    /\ activities = <<>>
    /\ progress = <<>>
    /\ last = Call("startup", 0)
    /\ inflight = [h \in Handlers |-> NoRequest]

\* session.get(Model, id): the row with that primary key, deleted or not
Exists(rows, id) == id \in 1..Len(rows)

\* ---------------------------------------------------- subjects and modules

\* DELETE /subjects/{subject_id}: sets the flag on the subject row and on no
\* other row (the ON DELETE CASCADE of modules.subject_id acts on a DELETE
\* statement, and none is issued)
delete_subject(subject_id) ==
    /\ UNCHANGED <<modules, lessons, activities, progress, inflight>>
    /\ IF ~Exists(subjects, subject_id) \/ subjects[subject_id].is_deleted
       THEN /\ last' = Return("delete_subject", subject_id, 404, {})
            /\ UNCHANGED subjects
       ELSE /\ subjects' = [subjects EXCEPT ![subject_id].is_deleted = TRUE]
            /\ last' = Return("delete_subject", subject_id, 204, {})

\* POST /modules
create_module(subject_id, slug) ==
    /\ Len(modules) < MaxModules
    /\ UNCHANGED <<subjects, lessons, activities, progress, inflight>>
    /\ IF subject_id \notin ExistingSubjects
       THEN /\ last' = Return("create_module", subject_id, 400, {})
            /\ UNCHANGED modules
       ELSE IF \E i \in 1..Len(modules) :
                    modules[i].subject_id = subject_id /\ modules[i].slug = slug
       THEN /\ last' = Return("create_module", subject_id, 409, {})
            /\ UNCHANGED modules
       ELSE /\ modules' = Append(modules, [subject_id |-> subject_id, slug |-> slug,
                                           is_deleted |-> FALSE])
            /\ last' = Return("create_module", subject_id, 201, {Len(modules) + 1})

\* GET /modules/{module_id}
get_module(module_id) ==
    /\ UNCHANGED <<subjects, modules, lessons, activities, progress, inflight>>
    /\ IF ~Exists(modules, module_id) \/ modules[module_id].is_deleted
       THEN last' = Return("get_module", module_id, 404, {})
       ELSE last' = Return("get_module", module_id, 200, {module_id})

\* GET /modules, with or without the subject_id filter (None: without)
list_modules(subject_id) ==
    /\ UNCHANGED <<subjects, modules, lessons, activities, progress, inflight>>
    /\ last' = Return("list_modules", subject_id, 200,
                      {i \in 1..Len(modules) :
                          /\ ~modules[i].is_deleted
                          /\ subject_id # None => modules[i].subject_id = subject_id})

\* DELETE /modules/{module_id}
delete_module(module_id) ==
    /\ UNCHANGED <<subjects, lessons, activities, progress, inflight>>
    /\ IF ~Exists(modules, module_id) \/ modules[module_id].is_deleted
       THEN /\ last' = Return("delete_module", module_id, 404, {})
            /\ UNCHANGED modules
       ELSE /\ modules' = [modules EXCEPT ![module_id].is_deleted = TRUE]
            /\ last' = Return("delete_module", module_id, 204, {})

\* --------------------------------------------------------------- lessons

\* POST /lessons
create_lesson(module_id, slug, order_index) ==
    /\ RowCount < MaxRows
    /\ UNCHANGED <<subjects, modules, activities, progress, inflight>>
    /\ IF module_id \notin ExistingModules
       THEN /\ last' = Call("create_lesson", 400)
            /\ UNCHANGED lessons
       ELSE IF \E i \in 1..Len(lessons) :
                    lessons[i].module_id = module_id /\ lessons[i].slug = slug
       THEN /\ last' = Call("create_lesson", 409)
            /\ UNCHANGED lessons
       ELSE /\ lessons' = Append(lessons,
                                 [module_id |-> module_id, slug |-> slug,
                                  order_index |-> order_index, is_deleted |-> FALSE])
            /\ last' = Call("create_lesson", 201)

\* DELETE /lessons/{lesson_id}
delete_lesson(lesson_id) ==
    /\ UNCHANGED <<subjects, modules, activities, progress, inflight>>
    /\ IF ~Exists(lessons, lesson_id) \/ lessons[lesson_id].is_deleted
       THEN /\ last' = Call("delete_lesson", 404)
            /\ UNCHANGED lessons
       ELSE /\ lessons' = [lessons EXCEPT ![lesson_id].is_deleted = TRUE]
            /\ last' = Call("delete_lesson", 204)

\* cleaned = {k: v for k, v in updates.items() if k in allowed}
Cleaned(updates, allowed) ==
    [k \in (DOMAIN updates) \cap allowed |-> updates[k]]

\* for k, v in cleaned.items(): setattr(entity, k, v), on the columns kept here
SetAttrs(entity, cleaned) ==
    [k \in DOMAIN entity |-> IF k \in DOMAIN cleaned THEN cleaned[k] ELSE entity[k]]

\* GET /lessons/{lesson_id}
get_lesson(lesson_id) ==
    /\ UNCHANGED <<subjects, modules, lessons, activities, progress, inflight>>
    /\ IF ~Exists(lessons, lesson_id) \/ lessons[lesson_id].is_deleted
       THEN last' = Return("get_lesson", lesson_id, 404, {})
       ELSE last' = Return("get_lesson", lesson_id, 200, {lesson_id})

\* GET /lessons, with or without the module_id filter (None: without); one
\* page holds every row
list_lessons(module_id) ==
    /\ UNCHANGED <<subjects, modules, lessons, activities, progress, inflight>>
    /\ last' = Return("list_lessons", module_id, 200,
                      {i \in 1..Len(lessons) :
                          /\ ~lessons[i].is_deleted
                          /\ module_id # None => lessons[i].module_id = module_id})

\* PUT /lessons/{lesson_id}
update_lesson(lesson_id, updates) ==
    /\ UNCHANGED <<subjects, modules, activities, progress, inflight>>
    /\ LET allowed == {"slug", "title", "content", "order_index", "module_id"}
           cleaned == Cleaned(updates, allowed)
           module_id == IF "module_id" \in DOMAIN cleaned THEN cleaned.module_id
                        ELSE lessons[lesson_id].module_id
       IN  IF DOMAIN cleaned = {}
           THEN /\ last' = Return("update_lesson", lesson_id, 400, {})
                /\ UNCHANGED lessons
           ELSE IF ~Exists(lessons, lesson_id) \/ lessons[lesson_id].is_deleted
           THEN /\ last' = Return("update_lesson", lesson_id, 404, {})
                /\ UNCHANGED lessons
           ELSE IF "module_id" \in DOMAIN cleaned
                   /\ cleaned.module_id \notin ExistingModules
           THEN /\ last' = Return("update_lesson", lesson_id, 400, {})
                /\ UNCHANGED lessons
           ELSE IF "slug" \in DOMAIN cleaned
                   /\ \E i \in 1..Len(lessons) :
                         /\ lessons[i].module_id = module_id
                         /\ lessons[i].slug = cleaned.slug
                         /\ i # lesson_id
           THEN /\ last' = Return("update_lesson", lesson_id, 409, {})
                /\ UNCHANGED lessons
           ELSE /\ lessons' = [lessons EXCEPT
                                  ![lesson_id] = SetAttrs(lessons[lesson_id], cleaned)]
                /\ last' = Return("update_lesson", lesson_id, 200, {lesson_id})

\* ------------------------------------------------------------ activities

\* POST /activities (and POST /quizzes, which forces type = quiz).  A payload
\* without order_index gets the default of ActivityCreate, 0.
create_activity(lesson_id, payload) ==
    /\ RowCount < MaxRows
    /\ UNCHANGED <<subjects, modules, lessons, progress, inflight>>
    /\ IF ~Exists(lessons, lesson_id) \/ lessons[lesson_id].is_deleted
       THEN /\ last' = Call("create_activity", 400)
            /\ UNCHANGED activities
       ELSE /\ activities' = Append(activities,
                                    [lesson_id |-> lesson_id, type |-> payload.type,
                                     order_index |->
                                        IF "order_index" \in DOMAIN payload
                                        THEN payload.order_index ELSE 0,
                                     quiz_questions |-> payload.quiz_questions,
                                     quiz_pass_score |-> payload.quiz_pass_score,
                                     is_deleted |-> FALSE])
            /\ last' = Call("create_activity", 201)

\* DELETE /activities/{activity_id} (and DELETE /quizzes/{quiz_id})
delete_activity(activity_id) ==
    /\ UNCHANGED <<subjects, modules, lessons, progress, inflight>>
    /\ IF ~Exists(activities, activity_id) \/ activities[activity_id].is_deleted
       THEN /\ last' = Call("delete_activity", 404)
            /\ UNCHANGED activities
       ELSE /\ activities' = [activities EXCEPT ![activity_id].is_deleted = TRUE]
            /\ last' = Call("delete_activity", 204)

\* GET /activities/{activity_id}
get_activity(activity_id) ==
    /\ UNCHANGED <<subjects, modules, lessons, activities, progress, inflight>>
    /\ IF ~Exists(activities, activity_id) \/ activities[activity_id].is_deleted
       THEN last' = Return("get_activity", activity_id, 404, {})
       ELSE last' = Return("get_activity", activity_id, 200, {activity_id})

\* GET /activities, with or without the lesson_id filter (None: without)
list_activities(lesson_id) ==
    /\ UNCHANGED <<subjects, modules, lessons, activities, progress, inflight>>
    /\ last' = Return("list_activities", lesson_id, 200,
                      {i \in 1..Len(activities) :
                          /\ ~activities[i].is_deleted
                          /\ lesson_id # None => activities[i].lesson_id = lesson_id})

\* PUT /activities/{activity_id}
update_activity(activity_id, updates) ==
    /\ UNCHANGED <<subjects, modules, lessons, progress, inflight>>
    /\ LET allowed == {"lesson_id", "type", "title", "content", "order_index",
                       "quiz_questions", "quiz_pass_score"}
           cleaned == Cleaned(updates, allowed)
       IN  IF DOMAIN cleaned = {}
           THEN /\ last' = Return("update_activity", activity_id, 400, {})
                /\ UNCHANGED activities
           ELSE IF ~Exists(activities, activity_id) \/ activities[activity_id].is_deleted
           THEN /\ last' = Return("update_activity", activity_id, 404, {})
                /\ UNCHANGED activities
           ELSE IF "lesson_id" \in DOMAIN cleaned
                   /\ (~Exists(lessons, cleaned.lesson_id)
                       \/ lessons[cleaned.lesson_id].is_deleted)
           THEN /\ last' = Return("update_activity", activity_id, 400, {})
                /\ UNCHANGED activities
           ELSE IF "type" \in DOMAIN cleaned /\ cleaned.type \notin {"content", "quiz"}
           THEN /\ last' = Return("update_activity", activity_id, 400, {})
                /\ UNCHANGED activities
           ELSE /\ activities' = [activities EXCEPT
                                     ![activity_id] = SetAttrs(activities[activity_id],
                                                               cleaned)]
                /\ last' = Return("update_activity", activity_id, 200, {activity_id})

\* The query of get_lesson_quiz: the quiz activities of the lesson, filtered
\* on lesson_id and type only, and of them the first by (order_index, id)
LessonQuiz(acts, lesson_id) ==
    LET quizzes == {i \in 1..Len(acts) :
                       acts[i].lesson_id = lesson_id /\ acts[i].type = "quiz"}
    IN  {i \in quizzes :
            \A j \in quizzes :
                \/ acts[i].order_index < acts[j].order_index
                \/ acts[i].order_index = acts[j].order_index /\ i <= j}

\* GET /ai/quiz/lesson/{lesson_id}
get_lesson_quiz(lesson_id) ==
    /\ UNCHANGED <<subjects, modules, lessons, activities, progress, inflight>>
    /\ IF LessonQuiz(activities, lesson_id) = {}
       THEN last' = Return("get_lesson_quiz", lesson_id, 404, {})
       ELSE last' = Return("get_lesson_quiz", lesson_id, 200,
                           LessonQuiz(activities, lesson_id))

\* ------------------------------------------------------- quiz generation

\* A question as the JSON of the language model delivers it: its text, its
\* options, and its answerIndex entry, which like a stored one may be an int,
\* a string, or absent
RawQuestion(question, options, answerIndex) ==
    [question |-> question, options |-> options, answerIndex |-> answerIndex]

\* str(q.get("question", "")).strip(), on the texts sent here
Strip(text) ==
    CASE text = "" -> ""
      [] text = " " -> ""
      [] text = " What? " -> "What?"
      [] OTHER -> text

\* int(q.get("answerIndex", 0)): an absent entry reads as 0; text that is no
\* numeral raises ValueError (ok = FALSE)
GeneratedAnswerIndex(q) ==
    IF q.answerIndex.kind = "missing" THEN [ok |-> TRUE, val |-> 0]
    ELSE IntOf(q.answerIndex)

\* if not question or len(options) != 4 or not (0 <= answer_idx <= 3): continue
KeptQuestion(q) ==
    /\ Strip(q.question) # ""
    /\ Len(q.options) = 4
    /\ GeneratedAnswerIndex(q).val \in 0..3

\* QuizQuestion(question, options, answerIndex).__dict__, the stored question.
\* The options sent here are strings, which map(str, ...) returns as they are.
StoredQuestion(q) ==
    [kind |-> "int", val |-> GeneratedAnswerIndex(q).val,
     question |-> Strip(q.question), options |-> q.options]

\* OpenAIQuizGenerator.generate_quiz from json.loads on: the first three
\* questions are converted, those that fail the check are skipped, and
\* anything but three kept questions, or an exception in a conversion, ends
\* in RuntimeError (ok = FALSE).
ParseQuestions(questions_raw) ==
    LET first == SubSeq(questions_raw, 1,
                        IF Len(questions_raw) < 3 THEN Len(questions_raw) ELSE 3)
        raised == \E i \in 1..Len(first) : ~GeneratedAnswerIndex(first[i]).ok
        kept == SelectSeq(first, KeptQuestion)
    IN  IF raised \/ Len(kept) # 3
        THEN [ok |-> FALSE, questions |-> <<>>]
        ELSE [ok |-> TRUE, questions |-> [i \in 1..3 |-> StoredQuestion(kept[i])]]

\* What a generate_quiz call leaves in last: the lesson id and the generator's
\* response it was served with, the status, and the id of the activity created
GenerateReturn(lesson_id, response, status, items) ==
    [op |-> "generate_quiz", id |-> lesson_id, response |-> response,
     status |-> status, items |-> items]

\* POST /ai/quiz/generate.  response is what the call to the language model
\* brings back: a failure (no API key, timeout, HTTP error, content that is
\* not JSON), or JSON with a list of questions.  The lesson query filters on
\* id only; the activity is always a new row, with order_index 999.
generate_quiz(lesson_id, pass_score, response) ==
    /\ UNCHANGED <<subjects, modules, lessons, progress, inflight>>
    /\ IF ~Exists(lessons, lesson_id)
       THEN /\ last' = GenerateReturn(lesson_id, response, 404, {})
            /\ UNCHANGED activities
       ELSE IF response.kind = "error" \/ ~ParseQuestions(response.questions).ok
       THEN /\ last' = GenerateReturn(lesson_id, response, 503, {})
            /\ UNCHANGED activities
       ELSE /\ RowCount < MaxRows
            /\ activities' = Append(activities,
                                    [lesson_id |-> lesson_id, type |-> "quiz",
                                     order_index |-> 999,
                                     quiz_questions |->
                                        ParseQuestions(response.questions).questions,
                                     quiz_pass_score |-> pass_score,
                                     is_deleted |-> FALSE])
            /\ last' = GenerateReturn(lesson_id, response, 200,
                                      {Len(activities) + 1})

\* -------------------------------------------------------------- progress

\* GET /progress/{progress_id}
get_progress(progress_id) ==
    /\ UNCHANGED <<subjects, modules, lessons, activities, progress, inflight>>
    /\ IF ~Exists(progress, progress_id) \/ progress[progress_id].is_deleted
       THEN last' = Return("get_progress", progress_id, 404, {})
       ELSE last' = Return("get_progress", progress_id, 200, {progress_id})

\* GET /progress?user_id=..., without the optional filters
list_progress(user_id) ==
    /\ UNCHANGED <<subjects, modules, lessons, activities, progress, inflight>>
    /\ last' = Return("list_progress", user_id, 200,
                      {i \in 1..Len(progress) :
                          progress[i].user_id = user_id /\ ~progress[i].is_deleted})

EntityTypes == {"subject", "module", "lesson", "activity"}

NoRefs == [subject_id |-> None, module_id |-> None, lesson_id |-> None,
           activity_id |-> None]

\* ResolveProgressTargets that keeps, for an activity, the id in lesson_id too
ResolveProgressTargetsBoth(entity_type, entity_id) ==
    CASE entity_type = "subject" -> [NoRefs EXCEPT !.subject_id = entity_id]
      [] entity_type = "module" -> [NoRefs EXCEPT !.module_id = entity_id]
      [] entity_type = "lesson" -> [NoRefs EXCEPT !.lesson_id = entity_id]
      [] entity_type = "activity" -> [NoRefs EXCEPT !.lesson_id = entity_id,
                                                    !.activity_id = entity_id]

\* _resolve_progress_targets, for an entity_type it accepts
ResolveProgressTargets(entity_type, entity_id) ==
    CASE entity_type = "subject" -> [NoRefs EXCEPT !.subject_id = entity_id]
      [] entity_type = "module" -> [NoRefs EXCEPT !.module_id = entity_id]
      [] entity_type = "lesson" -> [NoRefs EXCEPT !.lesson_id = entity_id]
      [] entity_type = "activity" -> [NoRefs EXCEPT !.activity_id = entity_id]

\* _validate_references: TRUE when no HTTPException is raised
ValidateReferences(refs) ==
    /\ refs.subject_id # None => Exists(subjects, refs.subject_id)
    /\ refs.module_id # None => Exists(modules, refs.module_id)
    /\ refs.lesson_id # None => Exists(lessons, refs.lesson_id)
    /\ refs.activity_id # None => Exists(activities, refs.activity_id)

\* MatchingProgress that finds no row: upsert_progress inserts every time
MatchingProgressNone(user_id, refs) == {}

\* MatchingProgress that looks at the user only: upsert_progress rewrites a
\* row of the user whatever it refers to
MatchingProgressAnyTarget(user_id, refs) ==
    {i \in 1..Len(progress) : progress[i].user_id = user_id /\ ~progress[i].is_deleted}

\* Rows the "same keys" query of upsert_progress matches
MatchingProgress(user_id, refs) ==
    {i \in 1..Len(progress) :
        /\ progress[i].user_id = user_id
        /\ progress[i].subject_id = refs.subject_id
        /\ progress[i].module_id = refs.module_id
        /\ progress[i].lesson_id = refs.lesson_id
        /\ progress[i].activity_id = refs.activity_id
        /\ ~progress[i].is_deleted}

\* What a POST /progress call answered with 201 leaves in last: its payload,
\* and its response, to_progress_read of the row written
UpsertReturn(entity_type, entity_id, status, score, id, row) ==
    [op |-> "upsert_progress", status |-> 201,
     payload |-> [entity_type |-> entity_type, entity_id |-> entity_id,
                  status |-> status, score |-> score],
     body |-> [id |-> id, user_id |-> row.user_id, lesson_id |-> row.lesson_id,
               activity_id |-> row.activity_id, completed |-> row.completed,
               score |-> row.score]]

\* DELETE /progress/{progress_id}
delete_progress(progress_id) ==
    /\ UNCHANGED <<subjects, modules, lessons, activities, inflight>>
    /\ IF ~Exists(progress, progress_id) \/ progress[progress_id].is_deleted
       THEN /\ last' = Call("delete_progress", 404)
            /\ UNCHANGED progress
       ELSE /\ progress' = [progress EXCEPT ![progress_id].is_deleted = TRUE]
            /\ last' = Call("delete_progress", 204)

\* POST /progress.  The query orders by updated_at, which the rows here do not
\* carry: when several rows match, any of them may be the one updated.
upsert_progress(user_id, entity_type, entity_id, status, score) ==
    /\ UNCHANGED <<subjects, modules, lessons, activities, inflight>>
    /\ IF status \notin {"completed", "in_progress"}
       THEN /\ last' = Call("upsert_progress", 400)
            /\ UNCHANGED progress
       ELSE IF entity_type \notin EntityTypes
       THEN /\ last' = Call("upsert_progress", 400)
            /\ UNCHANGED progress
       ELSE LET refs == ResolveProgressTargets(entity_type, entity_id)
                completed == (status = "completed")
                matching == MatchingProgress(user_id, refs)
                entity == Progress(UpsertKwargs(user_id, refs, completed, score))
            IN  IF ~ValidateReferences(refs)
                THEN /\ last' = Call("upsert_progress", 400)
                     /\ UNCHANGED progress
                ELSE IF matching # {}
                THEN \E existing \in matching :
                        /\ progress' = [progress EXCEPT
                                            ![existing].completed = completed,
                                            ![existing].score = score]
                        /\ last' = UpsertReturn(entity_type, entity_id, status, score,
                                             existing, progress'[existing])
                ELSE IF ~entity.ok
                THEN /\ last' = Call("upsert_progress", 500)
                     /\ UNCHANGED progress
                ELSE /\ RowCount < MaxRows
                     /\ progress' = Append(progress, entity.row)
                     /\ last' = UpsertReturn(entity_type, entity_id, status, score,
                                          Len(progress) + 1, entity.row)

\* What a submit_quiz call leaves in last when it returns
SubmitReturn(user_id, activity_id, answers, status, body, locals) ==
    [op |-> "submit_quiz", status |-> status, user_id |-> user_id,
     activity_id |-> activity_id, answers |-> answers, body |-> body,
     locals |-> locals]

\* submit_quiz writing the lesson-completion row for a call that was graded
\* and then failed
submit_quiz_completes_lesson(user_id, activity_id, answers) ==
    /\ UNCHANGED <<subjects, modules, lessons, activities, inflight>>
    /\ answers # <<>>
    /\ \E out \in SubmitQuiz(activities, lessons, user_id, activity_id, answers) :
          /\ progress' = IF out.locals.graded /\ RowCount < MaxRows
                          THEN Append(progress,
                                      [NoRow EXCEPT
                                          !.user_id = user_id,
                                          !.lesson_id = activities[activity_id].lesson_id,
                                          !.completed = TRUE,
                                          !.score = out.locals.score])
                          ELSE progress
          /\ last' = SubmitReturn(user_id, activity_id, answers, out.status,
                                  out.body, out.locals)

\* submit_quiz writing the attempt over the newest progress row instead of
\* adding a row of its own.
submit_quiz_overwrite(user_id, activity_id, answers) ==
    /\ UNCHANGED <<subjects, modules, lessons, activities, inflight>>
    /\ answers # <<>>
    /\ \E out \in SubmitQuiz(activities, lessons, user_id, activity_id, answers) :
          /\ progress' = IF out.locals.graded /\ progress # <<>>
                          THEN [progress EXCEPT ![Len(progress)].completed = TRUE,
                                                ![Len(progress)].score = out.locals.score]
                          ELSE progress
          /\ last' = [op |-> "submit_quiz", status |-> out.status,
                      user_id |-> user_id, activity_id |-> activity_id,
                      answers |-> answers, body |-> out.body,
                      locals |-> out.locals]

\* POST /ai/quiz/submit.  SubmitQuizRequest rejects an empty answers list (422)
\* before the handler runs.
submit_quiz(user_id, activity_id, answers) ==
    /\ UNCHANGED <<subjects, modules, lessons, activities, inflight>>
    /\ IF answers = <<>>
       THEN /\ last' = [op |-> "submit_quiz", status |-> 422, user_id |-> user_id,
                        activity_id |-> activity_id, answers |-> answers,
                        body |-> NoBody, locals |-> NoLocals]
            /\ UNCHANGED progress
       ELSE \E out \in SubmitQuiz(activities, lessons, user_id, activity_id, answers) :
              /\ RowCount + Len(out.added) <= MaxRows
              /\ progress' = progress \o out.added
              /\ last' = [op |-> "submit_quiz", status |-> out.status,
                          user_id |-> user_id, activity_id |-> activity_id,
                          answers |-> answers, body |-> out.body,
                          locals |-> out.locals]

\* submit_quiz served concurrently, first part: the request takes slot h and
\* the handler runs up to and including its activity query.  422 and 404
\* return at once; otherwise the call holds the row it read.  Slots are taken
\* in order; "after" keeps the slots whose call had returned by then.
submit_begin(h, user_id, activity_id, answers) ==
    /\ inflight[h].pc = "idle"
    /\ \A g \in Handlers : g < h => inflight[g].pc # "idle"
    /\ UNCHANGED <<subjects, modules, lessons, activities, progress>>
    /\ LET found == {i \in 1..Len(activities) :
                        i = activity_id /\ activities[i].type = "quiz"}
           request == [NoRequest EXCEPT
                          !.user_id = user_id, !.activity_id = activity_id,
                          !.answers = answers,
                          !.after = {g \in Handlers : inflight[g].pc = "done"}]
       IN  IF answers = <<>> \/ found = {}
           THEN LET status == IF answers = <<>> THEN 422 ELSE 404
                IN  /\ inflight' = [inflight EXCEPT ![h] =
                                       [request EXCEPT !.pc = "done",
                                                       !.status = status]]
                    /\ last' = SubmitReturn(user_id, activity_id, answers, status,
                                            NoBody, NoLocals)
           ELSE /\ inflight' = [inflight EXCEPT ![h] =
                                   [request EXCEPT !.pc = "found",
                                                   !.activity = activities[activity_id]]]
                /\ UNCHANGED last

\* submit_quiz served concurrently, second part: everything after the
\* activity query.  The handler's later statements that reach the database
\* (the two lesson queries and the commit) all follow the first Progress(...)
\* call, so they are taken in this one step.
submit_finish(h) ==
    /\ inflight[h].pc = "found"
    /\ UNCHANGED <<subjects, modules, lessons, activities>>
    /\ LET r == inflight[h]
       IN  \E out \in SubmitFound(lessons, r.user_id, r.activity_id, r.activity,
                                   r.answers) :
              /\ RowCount + Len(out.added) <= MaxRows
              /\ progress' = progress \o out.added
              /\ inflight' = [inflight EXCEPT ![h] =
                                 [r EXCEPT !.pc = "done", !.status = out.status,
                                           !.body = out.body, !.locals = out.locals,
                                           !.first = Len(progress) + 1,
                                           !.added = out.added]]
              /\ last' = SubmitReturn(r.user_id, r.activity_id, r.answers,
                                      out.status, out.body, out.locals)

\* Ids sent in requests: those of the rows of a table and one that is absent
IdsFor(rows) == 1..(Len(rows) + 1)

\* Requests that are rejected before any of their other fields is read are
\* sent once: a lesson for an unknown module, an activity for an unknown
\* lesson, a progress entry with an invalid entity_type or status.
LessonRequests ==
    {r \in [module_id : ModuleIds, slug : Slugs, order_index : OrderIndexes] :
        r.module_id \notin ExistingModules => (r.slug = "a" /\ r.order_index = 0)}

UpsertRequests ==
    {r \in [entity_type : UpsertEntityTypes, entity_id : 1..(MaxRows + 1),
            st : UpsertStatuses] :
        /\ r.entity_type \notin EntityTypes
              => (r.entity_id = 1 /\ r.st.status = "completed")
        /\ r.st.status \notin {"completed", "in_progress"}
              => (r.entity_type = "lesson" /\ r.entity_id = 1)}

Next ==
    \/ \E r \in LessonRequests : create_lesson(r.module_id, r.slug, r.order_index)
    \/ \E l \in IdsFor(lessons) : delete_lesson(l)
    \/ \E l \in IdsFor(lessons), p \in ActivityPayloads :
          /\ (~Exists(lessons, l) => p.type = "content")
          /\ create_activity(l, p)
    \/ \E a \in IdsFor(activities) : delete_activity(a)
    \/ \E u \in Users, r \in UpsertRequests :
          /\ r.entity_id \in IF r.entity_type = "activity" THEN IdsFor(activities)
                              ELSE IdsFor(lessons)
          /\ upsert_progress(u, r.entity_type, r.entity_id, r.st.status, r.st.score)
    \/ \E u \in Users, a \in IdsFor(activities), ans \in AnswerLists :
          submit_quiz(u, a, ans)

Spec == Init /\ [][Next]_vars

\* The progress endpoints next to submit_quiz: a module with its lessons and
\* quizzes, progress entries written, rewritten and soft-deleted.
\* Quizzes are created with no quiz_pass_score or with -10.0 (ActivityCreate
\* declares the field Optional[float] with no range).
ProgressPayloads ==
    [type : {"quiz"}, quiz_questions : {QuizWellFormed},
     quiz_pass_score : {None, -1000}]

ProgressAnswerLists == { <<1, 2, 0>>, <<0, 0, 1>> }

ProgressUsers == {"u1", "u2"}

NextProgress ==
    \/ \E r \in LessonRequests :
          r.module_id \in ExistingModules
          /\ create_lesson(r.module_id, r.slug, r.order_index)
    \/ \E l \in 1..Len(lessons), p \in ProgressPayloads : create_activity(l, p)
    \/ \E u \in ProgressUsers, r \in UpsertRequests :
          /\ r.entity_id \in IF r.entity_type = "activity" THEN IdsFor(activities)
                              ELSE IdsFor(lessons)
          /\ upsert_progress(u, r.entity_type, r.entity_id, r.st.status, r.st.score)
    \/ \E p \in IdsFor(progress) : delete_progress(p)
    \/ \E l \in 1..Len(lessons) : delete_lesson(l)
    \/ \E u \in ProgressUsers, a \in 1..Len(activities), ans \in ProgressAnswerLists :
          submit_quiz(u, a, ans)

SpecProgress == Init /\ [][NextProgress]_vars

\* The relational CRUD surface: rows created, read, listed, updated and
\* soft-deleted.  An update is sent with one updatable field, with a field
\* that is not updatable (is_deleted), or with both.
CrudPayloads ==
    {p \in ActivityPayloads : p.type = "content" \/ p.quiz_pass_score = None}

LessonUpdates ==
    {[is_deleted |-> FALSE], [order_index |-> 1],
     [slug |-> "b", is_deleted |-> FALSE], [module_id |-> 2]}

ActivityUpdates ==
    {[is_deleted |-> FALSE], [quiz_pass_score |-> 0, is_deleted |-> FALSE],
     [type |-> "essay"], [lesson_id |-> 2]}

NextCrud ==
    \/ \E r \in LessonRequests :
          r.module_id \in ExistingModules
          /\ create_lesson(r.module_id, r.slug, r.order_index)
    \/ \E l \in IdsFor(lessons) : get_lesson(l)
    \/ \E m \in {None, 1} : list_lessons(m)
    \/ \E l \in IdsFor(lessons), u \in LessonUpdates : update_lesson(l, u)
    \/ \E l \in IdsFor(lessons) : delete_lesson(l)
    \/ \E l \in 1..Len(lessons), p \in CrudPayloads : create_activity(l, p)
    \/ \E a \in IdsFor(activities) : get_activity(a)
    \/ \E l \in {None, 1} : list_activities(l)
    \/ \E a \in IdsFor(activities), u \in ActivityUpdates : update_activity(a, u)
    \/ \E a \in IdsFor(activities) : delete_activity(a)
    \/ \E l \in IdsFor(lessons) : get_lesson_quiz(l)
    \/ \E u \in Users, e \in 1..Len(lessons) :
          upsert_progress(u, "lesson", e, "completed", 5000)
    \/ \E p \in IdsFor(progress) : get_progress(p)
    \/ \E u \in Users : list_progress(u)
    \/ \E p \in IdsFor(progress) : delete_progress(p)

SpecCrud == Init /\ [][NextCrud]_vars

\* submit_quiz calls served concurrently, with quizzes created and soft-deleted
\* while calls are in flight
ConcPayloads ==
    {p \in ActivityPayloads : p.type = "quiz" /\ p.quiz_pass_score = None}

ConcAnswerLists == { <<1, 2, 0>>, <<1, 2, 3>>, <<1, 0>> }

NextConc ==
    \/ \E r \in LessonRequests :
          r.module_id \in ExistingModules
          /\ create_lesson(r.module_id, r.slug, r.order_index)
    \/ \E l \in 1..Len(lessons), p \in ConcPayloads : create_activity(l, p)
    \/ \E a \in 1..Len(activities) : delete_activity(a)
    \/ \E h \in Handlers, u \in Users, a \in IdsFor(activities),
           ans \in ConcAnswerLists : submit_begin(h, u, a, ans)
    \/ \E h \in Handlers : submit_finish(h)

SpecConc == Init /\ [][NextConc]_vars

\* Grading of stored question lists that the generator would not produce.
\* POST /activities stores any non-empty list it is given and, with the field
\* omitted, NULL: a question without answerIndex, one whose answerIndex is
\* text, one whose answerIndex is a numeral in a string, and no questions.
QuizMalformed == << AnswerIndex(1), AnswerIndexMissing, AnswerIndexStr("x") >>

QuizNumerals == << AnswerIndexStr("1"), AnswerIndex(2), AnswerIndex(0) >>

GradePayloads ==
    [type : {"quiz"}, quiz_questions : {<<>>, QuizMalformed, QuizNumerals},
     quiz_pass_score : {None}]

GradeAnswerLists == { <<>>, <<1, 2, 0>>, <<1, 0, 0>>, <<0>> }

NextGrade ==
    \/ \E r \in LessonRequests :
          r.module_id \in ExistingModules
          /\ create_lesson(r.module_id, r.slug, r.order_index)
    \/ \E l \in 1..Len(lessons), p \in GradePayloads : create_activity(l, p)
    \/ \E u \in Users, a \in 1..Len(activities), ans \in GradeAnswerLists :
          submit_quiz(u, a, ans)

SpecGrade == Init /\ [][NextGrade]_vars

\* Progress entries written for each kind of target: POST /progress with the
\* four entity types it accepts and one it does not, next to submit_quiz
TargetRequests ==
    {r \in [entity_type : EntityTypes \cup {"course"}, entity_id : {1, 2},
            st : {t \in UpsertStatuses : t.status \in {"completed", "in_progress"}}] :
        r.entity_type \notin EntityTypes
              => (r.entity_id = 1 /\ r.st.status = "completed")}

NextTargets ==
    \/ \E r \in LessonRequests :
          r.module_id \in ExistingModules
          /\ create_lesson(r.module_id, r.slug, r.order_index)
    \/ \E l \in 1..Len(lessons), p \in ConcPayloads : create_activity(l, p)
    \/ \E u \in Users, r \in TargetRequests :
          upsert_progress(u, r.entity_type, r.entity_id, r.st.status, r.st.score)
    \/ \E u \in Users, a \in 1..Len(activities), ans \in ProgressAnswerLists :
          submit_quiz(u, a, ans)

SpecTargets == Init /\ [][NextTargets]_vars

\* The hierarchy above the lessons: modules created, read, listed and
\* soft-deleted, the subject soft-deleted, lessons created and read
NextHierarchy ==
    \/ \E s \in IdsFor(subjects) : delete_subject(s)
    \/ \E s \in IdsFor(subjects), slug \in Slugs : create_module(s, slug)
    \/ \E m \in IdsFor(modules) : get_module(m)
    \/ \E s \in {None, 1} : list_modules(s)
    \/ \E m \in IdsFor(modules) : delete_module(m)
    \/ \E r \in LessonRequests : create_lesson(r.module_id, r.slug, r.order_index)
    \/ \E l \in IdsFor(lessons) : get_lesson(l)
    \/ \E m \in {None, 1} : list_lessons(m)

SpecHierarchy == Init /\ [][NextHierarchy]_vars

\* Quiz generation: what the language model may answer.  Two well-formed
\* lists with different answers; lists with a question that lacks
\* answerIndex, holds it as a numeral in a string, as other text, or out of
\* range; a blank question text; too few options; two questions; four
\* questions with a bad one among the first three; a failed call.
Generated(v) == RawQuestion(" What? ", <<"a", "b", "c", "d">>, AnswerIndex(v))

GeneratorResponses ==
    {[kind |-> "error", questions |-> <<>>]}
    \cup [kind : {"json"},
          questions :
            {<<Generated(1), Generated(2), Generated(0)>>,
             <<Generated(0), Generated(3), Generated(3)>>,
             <<Generated(1), Generated(2),
               RawQuestion("What?", <<"a", "b", "c", "d">>, AnswerIndexMissing)>>,
             <<RawQuestion("What?", <<"a", "b", "c", "d">>, AnswerIndexStr("2")),
               Generated(2), Generated(0)>>,
             <<Generated(1),
               RawQuestion("What?", <<"a", "b", "c", "d">>, AnswerIndexStr("x")),
               Generated(0)>>,
             <<Generated(1), Generated(2), Generated(4)>>,
             <<RawQuestion(" ", <<"a", "b", "c", "d">>, AnswerIndex(1)),
               Generated(2), Generated(0)>>,
             <<Generated(1), Generated(2)>>,
             <<Generated(1), RawQuestion("What?", <<"a", "b", "c">>, AnswerIndex(0)),
               Generated(2), Generated(0)>>}]

NextGen ==
    \/ \E r \in LessonRequests :
          r.module_id \in ExistingModules
          /\ create_lesson(r.module_id, r.slug, r.order_index)
    \/ \E l \in 1..Len(lessons) : delete_lesson(l)
    \/ \E l \in IdsFor(lessons), response \in GeneratorResponses :
          generate_quiz(l, DefaultPassScore, response)
    \/ \E l \in IdsFor(lessons) : get_lesson_quiz(l)

SpecGen == Init /\ [][NextGen]_vars

\* ----------------------------------------------------------------- claims

\* The step is a submit_quiz request whose payload passed SubmitQuizRequest,
\* so the handler ran.  Every action writes its own name to last.op.
SubmitStep == last'.op = "submit_quiz" /\ last'.status # 422

\* The request of the step names a quiz activity row (deleted or not)
OnQuizRow ==
    /\ Exists(activities, last'.activity_id)
    /\ activities[last'.activity_id].type = "quiz"

\* The request of the step names a quiz activity that is not soft-deleted and
\* brings as many answers as the quiz has questions
WellFormedSubmission ==
    /\ SubmitStep
    /\ OnQuizRow
    /\ ~activities[last'.activity_id].is_deleted
    /\ Len(last'.answers) = Len(activities[last'.activity_id].quiz_questions)

\* The pass threshold the specification gives the activity: quiz_pass_score
\* when the field is set, 70 otherwise
StatedThreshold(activity) ==
    IF activity.quiz_pass_score # None THEN activity.quiz_pass_score
    ELSE DefaultPassScore

\* Positions at which the answer equals the stored answerIndex
Matches(questions, answers) ==
    {i \in 1..Len(answers) :
        questions[i].kind = "int" /\ answers[i] = questions[i].val}

\* correct / total * 100 to two decimals, in hundredths
StatedScore(correct, total) ==
    IF total = 0 THEN 0
    ELSE IF 2 * ((correct * 10000) % total) >= total
         THEN (correct * 10000) \div total + 1
         ELSE (correct * 10000) \div total

\* Lessons of the module of lesson l that come after it
LaterLessons(l) ==
    {i \in 1..Len(lessons) :
        /\ lessons[i].module_id = lessons[l].module_id
        /\ lessons[i].order_index > lessons[l].order_index}

\* A later lesson with no other later lesson before it
ImmediateSuccessors(l) ==
    {i \in LaterLessons(l) :
        \A j \in LaterLessons(l) : lessons[i].order_index <= lessons[j].order_index}

\* Rows the step added to the progress table
AddedRows == SubSeq(progress', Len(progress) + 1, Len(progress'))

ProgressKept ==
    /\ Len(progress') >= Len(progress)
    /\ \A i \in 1..Len(progress) : progress'[i] = progress[i]

C2_NotFoundWhenAbsentNonQuizOrDeleted ==
    [][(/\ SubmitStep
        /\ \/ ~Exists(activities, last'.activity_id)
           \/ activities[last'.activity_id].type # "quiz"
           \/ activities[last'.activity_id].is_deleted)
       => (last'.status = 404 /\ progress' = progress)]_vars

\* C3: a submission that gets through validation succeeds and inserts exactly
\* 1 progress row when it fails the threshold, 3 when it passes and the lesson
\* has a successor in its module, 2 when it passes on the module's last lesson.
C3_InsertsOneTwoOrThreeRows ==
    [][WellFormedSubmission
       => /\ last'.status = 200
          /\ Len(AddedRows) =
                IF ~last'.locals.passed THEN 1
                ELSE IF LaterLessons(activities[last'.activity_id].lesson_id) # {}
                THEN 3 ELSE 2]_vars

\* C4: submit_quiz is append-only: whatever the call returns, every progress
\* row that existed before it is still there unchanged, and no lesson or
\* activity row is changed.
C4_AppendOnly ==
    [][last'.op = "submit_quiz"
       => (ProgressKept /\ lessons' = lessons /\ activities' = activities)]_vars

\* C4 witness: the handler graded a submission while progress rows existed
C4_Witness ==
    /\ last.op = "submit_quiz"
    /\ last.locals.graded
    /\ progress # <<>>

\* C5: a passing submission on a lesson with later lessons in its module
\* unlocks the immediate successor: the response names it and the last row
\* added is its unlock sentinel (completed = false, score = null).
C5_UnlocksImmediateSuccessor ==
    [][(/\ WellFormedSubmission
        /\ last'.locals.passed
        /\ LaterLessons(activities[last'.activity_id].lesson_id) # {})
       => /\ last'.status = 200
          /\ last'.body.unlocked_next_lesson_id
                \in ImmediateSuccessors(activities[last'.activity_id].lesson_id)
          /\ AddedRows # <<>>
          /\ LET marker == AddedRows[Len(AddedRows)]
             IN  /\ marker.lesson_id = last'.body.unlocked_next_lesson_id
                 /\ marker.activity_id = None
                 /\ ~marker.completed
                 /\ marker.score = None]_vars

\* C6: a passing submission on the last lesson of its module succeeds with
\* unlocked_next_lesson_id null and adds no unlock sentinel.
C6_LastLessonUnlocksNothing ==
    [][(/\ WellFormedSubmission
        /\ last'.locals.passed
        /\ LaterLessons(activities[last'.activity_id].lesson_id) = {})
       => /\ last'.status = 200
          /\ last'.body.unlocked_next_lesson_id = None
          /\ \A i \in 1..Len(AddedRows) :
                ~(AddedRows[i].lesson_id # None /\ ~AddedRows[i].completed)]_vars

\* C7: a submission that does not pass inserts the activity-level attempt
\* row and nothing else: no row with a lesson_id, and
\* unlocked_next_lesson_id is null.
C7_FailedAttemptOnlyRow ==
    [][(WellFormedSubmission /\ ~last'.locals.passed)
       => /\ Len(AddedRows) = 1
          /\ AddedRows[1].activity_id = last'.activity_id
          /\ AddedRows[1].lesson_id = None
          /\ last'.body.unlocked_next_lesson_id = None]_vars

\* C8: passed is true exactly when the score is at least the activity's pass
\* threshold, a score equal to quiz_pass_score included.
C8_PassedIffScoreAtLeastThreshold ==
    (last.op = "submit_quiz" /\ last.locals.graded)
    => (last.locals.passed
        <=> last.locals.score >= StatedThreshold(activities[last.activity_id]))

\* C9: the threshold submit_quiz grades against is the activity's
\* quiz_pass_score whenever the field is set (0 included), and 70 only when
\* it is not set.
C9_ThresholdIsStoredPassScore ==
    (last.op = "submit_quiz" /\ last.locals.graded)
    => last.locals.pass_score = StatedThreshold(activities[last.activity_id])

\* C10: a submission that gets through validation returns correct = the
\* number of answers equal to the stored answerIndex, total_questions = the
\* number of stored questions and score = correct / total_questions * 100
\* rounded to two decimals.
C10_ResponseCountsAndScore ==
    [][WellFormedSubmission
       => LET questions == activities[last'.activity_id].quiz_questions
              n == Cardinality(Matches(questions, last'.answers))
          IN  /\ last'.status = 200
              /\ last'.body.correct = n
              /\ last'.body.total_questions = Len(questions)
              /\ last'.body.score = StatedScore(n, Len(questions))]_vars

\* C11: on a quiz activity with the default threshold (no quiz_pass_score), a
\* submission whose every answer equals the stored answerIndex returns score
\* 100.00 and passed = true.
C11_AllCorrectPasses ==
    [][(/\ WellFormedSubmission
        /\ activities[last'.activity_id].quiz_pass_score = None
        /\ Matches(activities[last'.activity_id].quiz_questions, last'.answers)
              = 1..Len(last'.answers))
       => /\ last'.status = 200
          /\ last'.body.score = 10000
          /\ last'.body.passed]_vars

\* C12: on every quiz activity, whatever its quiz_pass_score, a submission in
\* which no answer equals the stored answerIndex returns score 0.00 and
\* passed = false.
C12_AllIncorrectFails ==
    [][(/\ WellFormedSubmission
        /\ Matches(activities[last'.activity_id].quiz_questions, last'.answers) = {})
       => /\ last'.status = 200
          /\ last'.body.score = 0
          /\ ~last'.body.passed
          /\ ~last'.locals.passed]_vars

\* Activity-level attempt rows of a user on an activity with a given score
AttemptRows(rows, user_id, activity_id, score) ==
    {i \in 1..Len(rows) :
        /\ rows[i].user_id = user_id
        /\ rows[i].activity_id = activity_id
        /\ rows[i].lesson_id = None
        /\ rows[i].completed
        /\ rows[i].score = score}

\* The call in slot r has returned and was a submission on a quiz activity
\* that was not soft-deleted, with as many answers as the quiz has questions
WellFormedCall(r) ==
    /\ r.pc = "done"
    /\ r.activity # NoActivity
    /\ ~r.activity.is_deleted
    /\ Len(r.answers) = Len(r.activity.quiz_questions)

\* Positions in the progress table of the rows the call in slot r committed
RowsOf(r) == r.first .. (r.first + Len(r.added) - 1)

\* The rows the call in slot r committed are in the progress table
Persisted(r) ==
    \A k \in 1..Len(r.added) :
        /\ r.first + k - 1 <= Len(progress)
        /\ progress[r.first + k - 1] = r.added[k]

\* C13: submitting the same answers for the same user and activity twice in
\* sequence leaves two distinct attempt rows with the same score: both calls
\* succeed, each has an attempt row of its own in the table, and the user's
\* attempt rows on the activity are as many as the successful submissions.
C13_RepeatedSubmissionTwoAttempts ==
    \A g, h \in Handlers :
        LET first == inflight[g]
            second == inflight[h]
        IN  (/\ g \in second.after
             /\ WellFormedCall(first)
             /\ WellFormedCall(second)
             /\ first.user_id = second.user_id
             /\ first.activity_id = second.activity_id
             /\ first.answers = second.answers)
            => /\ first.status = 200
               /\ second.status = 200
               /\ first.locals.score = second.locals.score
               /\ first.added # <<>>
               /\ second.added # <<>>
               /\ first.first # second.first
               /\ {first.first, second.first}
                     \subseteq AttemptRows(progress, first.user_id,
                                           first.activity_id, first.locals.score)
               /\ Cardinality({i \in 1..Len(progress) :
                                 /\ progress[i].user_id = first.user_id
                                 /\ progress[i].activity_id = first.activity_id})
                    = Cardinality({k \in Handlers :
                                     /\ inflight[k].status = 200
                                     /\ inflight[k].user_id = first.user_id
                                     /\ inflight[k].activity_id = first.activity_id})

\* C14: the rows of one submission are committed together or not at all.  A
\* call that has not returned, or returned an error, has no row in the
\* table; a call that returned 200 has all its rows there: the attempt row
\* alone when it did not pass, and with it the lesson-completion row and, when
\* a lesson was unlocked, the unlock row when it passed.
C14_SubmissionAtomic ==
    \A h \in Handlers :
        LET r == inflight[h]
        IN  /\ (r.pc # "done" \/ r.status # 200) => r.added = <<>>
            /\ (r.pc = "done" /\ r.status = 200)
                  => /\ Len(r.added) =
                            IF ~r.locals.passed THEN 1
                            ELSE IF r.body.unlocked_next_lesson_id = None THEN 2
                            ELSE 3
                     /\ Persisted(r)
            /\ Len(progress) >= r.first + Len(r.added) - 1

\* C14 witness: a submission graded as passing ended in an error and none of
\* its rows is in the table, while another call is still in flight
C14_Witness ==
    \E g, h \in Handlers :
        /\ inflight[g].pc = "done"
        /\ inflight[g].locals.passed
        /\ inflight[g].status = 500
        /\ inflight[g].added = <<>>
        /\ progress = <<>>
        /\ inflight[h].pc = "found"

\* C15: two submit_quiz calls for the same user and activity that are served
\* concurrently, in whatever order their steps interleave, both succeed and
\* each has its own full set of rows in the table, none shared with or
\* overwritten by the other.
C15_ConcurrentSubmissionsBothAppend ==
    \A g, h \in Handlers :
        (/\ g # h
         /\ WellFormedCall(inflight[g])
         /\ WellFormedCall(inflight[h])
         /\ inflight[g].user_id = inflight[h].user_id
         /\ inflight[g].activity_id = inflight[h].activity_id)
        => /\ inflight[g].status = 200
           /\ inflight[h].status = 200
           /\ Len(inflight[g].added) >= (IF inflight[g].locals.passed THEN 2 ELSE 1)
           /\ Len(inflight[h].added) >= (IF inflight[h].locals.passed THEN 2 ELSE 1)
           /\ Persisted(inflight[g])
           /\ Persisted(inflight[h])
           /\ RowsOf(inflight[g]) \cap RowsOf(inflight[h]) = {}

\* Lesson-level rows: a lesson_id and no activity_id.  Pairs <<user, lesson>>
\* with a completed = true row (Completed), with a completed = false row
\* (Unlocked).
LessonLevel(row) == row.lesson_id # None /\ row.activity_id = None

CompletedPairs(rows) ==
    {<<rows[i].user_id, rows[i].lesson_id>> :
        i \in {k \in 1..Len(rows) : LessonLevel(rows[k]) /\ rows[k].completed}}

UnlockedPairs(rows) ==
    {<<rows[i].user_id, rows[i].lesson_id>> :
        i \in {k \in 1..Len(rows) : LessonLevel(rows[k]) /\ ~rows[k].completed}}

\* The step is a submit_quiz call of the user that passed and returned 200
PassingSubmit(user_id) ==
    /\ last'.op = "submit_quiz"
    /\ last'.status = 200
    /\ last'.locals.passed
    /\ last'.user_id = user_id
    /\ Exists(activities, last'.activity_id)

\* The step is an upsert_progress call that returned the user's lesson-level
\* row of the lesson with the given completed flag
UpsertOnLesson(user_id, lesson_id, completed) ==
    /\ last'.op = "upsert_progress"
    /\ last'.status = 201
    /\ last'.body.user_id = user_id
    /\ last'.body.lesson_id = lesson_id
    /\ last'.body.activity_id = None
    /\ last'.body.completed = completed

\* C16 as stated: per user and lesson, a completed = true lesson-level row
\* comes to exist only through a passing submit_quiz on a quiz of that lesson,
\* and a completed = false one only through a passing submit_quiz on a quiz of
\* the immediately preceding lesson of the module; no other operation,
\* upsert_progress included, does either.
C16_OnlySubmitQuizMovesLessons ==
    [][/\ \A p \in CompletedPairs(progress') \ CompletedPairs(progress) :
             /\ PassingSubmit(p[1])
             /\ activities[last'.activity_id].lesson_id = p[2]
       /\ \A p \in UnlockedPairs(progress') \ UnlockedPairs(progress) :
             /\ PassingSubmit(p[1])
             /\ p[2] \in ImmediateSuccessors(activities[last'.activity_id].lesson_id)
      ]_vars

\* C16 amended: a completed = true lesson-level row comes to exist only
\* through a passing submit_quiz on a quiz of that lesson or through an
\* upsert_progress call on that lesson with status completed; a
\* completed = false one only through a passing submit_quiz on a quiz of the
\* immediately preceding lesson or through an upsert_progress call on that
\* lesson with status in_progress.  No other operation does either.
C16_OnlySubmitQuizOrUpsertMovesLessons ==
    [][/\ \A p \in CompletedPairs(progress') \ CompletedPairs(progress) :
             \/ /\ PassingSubmit(p[1])
                /\ activities[last'.activity_id].lesson_id = p[2]
             \/ UpsertOnLesson(p[1], p[2], TRUE)
       /\ \A p \in UnlockedPairs(progress') \ UnlockedPairs(progress) :
             \/ /\ PassingSubmit(p[1])
                /\ p[2] \in ImmediateSuccessors(activities[last'.activity_id].lesson_id)
             \/ UpsertOnLesson(p[1], p[2], FALSE)
      ]_vars

\* C16 witness: an upsert_progress call has just made a lesson Completed for
\* a user; the lesson has a quiz, and no submission wrote a row
C16_Witness ==
    /\ last.op = "upsert_progress"
    /\ last.status = 201
    /\ last.body.lesson_id # None
    /\ last.body.completed
    /\ <<last.body.user_id, last.body.lesson_id>> \in CompletedPairs(progress)
    /\ Len(progress) = 1
    /\ \E a \in 1..Len(activities) :
          activities[a].lesson_id = last.body.lesson_id /\ activities[a].type = "quiz"

\* Rows of a user's progress on one entity that are not soft-deleted; the
\* entity is the lesson or the activity the row names
KeyRows(rows, user_id, lesson_id, activity_id) ==
    {i \in 1..Len(rows) :
        /\ rows[i].user_id = user_id
        /\ rows[i].lesson_id = lesson_id
        /\ rows[i].activity_id = activity_id
        /\ ~rows[i].is_deleted}

\* C18: an upsert_progress call that returns 201 leaves exactly one
\* non-deleted row for its (user, entity) key, the row it returns, holding
\* the completed flag and the score of the call.  With no such row before, the
\* call inserts it; with one before, the call rewrites that row and the table
\* does not grow.  There is never more than one to choose from, and no other
\* row is touched.
C18_UpsertKeepsOneRowPerKey ==
    [][(last'.op = "upsert_progress" /\ last'.status = 201)
       => LET b == last'.body
              before == KeyRows(progress, b.user_id, b.lesson_id, b.activity_id)
              after == KeyRows(progress', b.user_id, b.lesson_id, b.activity_id)
          IN  /\ Cardinality(before) <= 1
              /\ after = {b.id}
              /\ progress'[b.id].completed = (last'.payload.status = "completed")
              /\ progress'[b.id].score = last'.payload.score
              /\ before = {} => Len(progress') = Len(progress) + 1
              /\ before # {} => (Len(progress') = Len(progress) /\ after = before)
              /\ \A i \in (1..Len(progress)) \ before : progress'[i] = progress[i]
      ]_vars

\* C18 witness: a call rewrote an older row of the table (the row it
\* returned is not the newest one) next to a row of another user on the same
\* entity
C18_Witness ==
    /\ last.op = "upsert_progress"
    /\ last.status = 201
    /\ last.body.id < Len(progress)
    /\ \E i \in 1..Len(progress) :
          /\ progress[i].user_id # last.body.user_id
          /\ progress[i].lesson_id = last.body.lesson_id
          /\ progress[i].activity_id = last.body.activity_id

\* C19: the attempt row of a graded submission is in the progress table with
\* completed = true and the score it was graded with, and is still there with
\* the same values after the next operation of whatever kind other than a
\* soft delete of progress rows, so that the history of attempts is kept.
C19_AttemptHistoryKept ==
    [][/\ WellFormedSubmission
          => AttemptRows(progress', last'.user_id, last'.activity_id,
                         last'.locals.score) # {}
       /\ (/\ last.op = "submit_quiz"
           /\ last.locals.graded
           /\ ~activities[last.activity_id].is_deleted
           /\ last'.op # "delete_progress")
          => AttemptRows(progress', last.user_id, last.activity_id,
                         last.locals.score) # {}
      ]_vars

\* C20: a passing submission adds, right after its attempt row, a
\* lesson-level row for the quiz's own lesson (lesson_id = activity.lesson_id,
\* no activity_id) with completed = true and the score of the attempt row.
C20_PassingAddsLessonCompletion ==
    [][(WellFormedSubmission /\ last'.locals.passed)
       => /\ Len(AddedRows) >= 2
          /\ AddedRows[1].activity_id = last'.activity_id
          /\ AddedRows[2].lesson_id = activities[last'.activity_id].lesson_id
          /\ AddedRows[2].activity_id = None
          /\ AddedRows[2].user_id = last'.user_id
          /\ AddedRows[2].completed
          /\ AddedRows[2].score = AddedRows[1].score]_vars

\* The step kept every row of the table and reset no is_deleted flag
RowsKept(before, after) ==
    /\ Len(after) >= Len(before)
    /\ \A i \in 1..Len(before) : before[i].is_deleted => after[i].is_deleted

\* The step changed nothing in the rows but their is_deleted flags
OnlyFlagsChanged(before, after) ==
    /\ Len(after) = Len(before)
    /\ \A i \in 1..Len(before) :
          [after[i] EXCEPT !.is_deleted = FALSE] = [before[i] EXCEPT !.is_deleted = FALSE]

\* A delete that returned 204 found its row not yet deleted
FlaggedOne(before, after) ==
    \E i \in 1..Len(before) : ~before[i].is_deleted /\ after[i].is_deleted

\* C17: soft delete is flag-only and final for reads.  No step removes a row
\* or resets is_deleted; a delete changes nothing but is_deleted, and returns
\* 204 only for a row that was not deleted yet (a second delete returns 404);
\* a get on a deleted id returns 404 and an update on it is refused (404, or
\* 400 for a body that names no updatable field, which update_lesson and
\* update_activity reject before they look the row up); a list or lookup
\* returns no deleted row.
C17_SoftDeleteFlagOnlyAndFinal ==
    [][/\ RowsKept(lessons, lessons')
       /\ RowsKept(activities, activities')
       /\ RowsKept(progress, progress')
       /\ last'.op = "delete_lesson"
            => /\ OnlyFlagsChanged(lessons, lessons')
               /\ last'.status = 204 => FlaggedOne(lessons, lessons')
       /\ last'.op = "delete_activity"
            => /\ OnlyFlagsChanged(activities, activities')
               /\ last'.status = 204 => FlaggedOne(activities, activities')
       /\ last'.op = "delete_progress"
            => /\ OnlyFlagsChanged(progress, progress')
               /\ last'.status = 204 => FlaggedOne(progress, progress')
       /\ (/\ last'.op \in {"get_lesson", "update_lesson", "get_lesson_quiz"}
           /\ Exists(lessons, last'.id)
           /\ lessons[last'.id].is_deleted)
            => last'.status \in IF last'.op = "update_lesson" THEN {400, 404} ELSE {404}
       /\ (/\ last'.op \in {"get_activity", "update_activity"}
           /\ Exists(activities, last'.id)
           /\ activities[last'.id].is_deleted)
            => last'.status \in IF last'.op = "update_activity" THEN {400, 404} ELSE {404}
       /\ (/\ last'.op = "get_progress"
           /\ Exists(progress, last'.id)
           /\ progress[last'.id].is_deleted)
            => last'.status = 404
       /\ last'.op \in {"get_lesson", "list_lessons"}
            => \A i \in last'.items : ~lessons[i].is_deleted
       /\ last'.op \in {"get_activity", "list_activities", "get_lesson_quiz"}
            => \A i \in last'.items : ~activities[i].is_deleted
       /\ last'.op \in {"get_progress", "list_progress"}
            => \A i \in last'.items : ~progress[i].is_deleted
      ]_vars

\* The stored answerIndex of a question is an integer
WellFormedQuestion(q) == q.kind = "int"

\* C21: a stored question with a missing or invalid answerIndex is graded as
\* answered incorrectly and does not abort the submission: on a quiz that
\* holds such a question, a submission with as many answers as questions
\* returns 200, counts as correct exactly the well-formed questions whose
\* answerIndex equals the answer, and adds the attempt row.
C21_MalformedQuestionCountsWrong ==
    [][(/\ WellFormedSubmission
        /\ \E i \in 1..Len(activities[last'.activity_id].quiz_questions) :
              ~WellFormedQuestion(activities[last'.activity_id].quiz_questions[i]))
       => /\ last'.status = 200
          /\ last'.body.correct =
                Cardinality(Matches(activities[last'.activity_id].quiz_questions,
                                    last'.answers))
          /\ AttemptRows(AddedRows, last'.user_id, last'.activity_id,
                         last'.body.score) # {}]_vars

\* C22: on a quiz activity with no stored questions, a submission with an
\* empty answers list is graded without a division by zero: it returns 200
\* with total_questions = 0, correct = 0 and score = 0.0 and adds the attempt
\* row.
C22_EmptyQuizGradedZero ==
    [][(/\ last'.op = "submit_quiz"
        /\ OnQuizRow
        /\ ~activities[last'.activity_id].is_deleted
        /\ activities[last'.activity_id].quiz_questions = <<>>
        /\ last'.answers = <<>>)
       => /\ last'.status = 200
          /\ last'.body.total_questions = 0
          /\ last'.body.correct = 0
          /\ last'.body.score = 0
          /\ AttemptRows(AddedRows, last'.user_id, last'.activity_id, 0) # {}]_vars

\* The target columns of a progress row that are not NULL
Targets(row) ==
    {k \in {"subject_id", "module_id", "lesson_id", "activity_id"} : row[k] # None}

\* C23: every row of the progress table, whether written by submit_quiz or by
\* upsert_progress, references exactly one target: one of subject_id,
\* module_id, lesson_id, activity_id is set and the other three are NULL.
C23_OneTargetPerRecord ==
    \A i \in 1..Len(progress) : Cardinality(Targets(progress[i])) = 1

\* C23 witness: upsert_progress has written rows for two kinds of target, a
\* lesson and a module or subject, the later one just now
C23_Witness ==
    /\ \E i, j \in 1..Len(progress) :
          /\ Targets(progress[i]) = {"lesson_id"}
          /\ Targets(progress[j]) \in {{"module_id"}, {"subject_id"}}
    /\ last.op = "upsert_progress"
    /\ last.status = 201
    /\ last.body.id = Len(progress)

\* C24: whatever create_lesson and update_lesson calls were made, no two
\* lessons of one module that are not soft-deleted have the same order_index,
\* so order_index orders a module's lessons strictly.
C24_OrderIndexUniqueInModule ==
    \A i, j \in 1..Len(lessons) :
        (/\ i # j
         /\ ~lessons[i].is_deleted
         /\ ~lessons[j].is_deleted
         /\ lessons[i].module_id = lessons[j].module_id)
        => lessons[i].order_index # lessons[j].order_index

\* The subject above a module, and above a lesson, is soft-deleted
UnderDeletedSubject(module_id) ==
    /\ Exists(modules, module_id)
    /\ Exists(subjects, modules[module_id].subject_id)
    /\ subjects[modules[module_id].subject_id].is_deleted

\* C27: delete_subject cascades to the children.  Once a subject is
\* soft-deleted, get_module on a module of the subject and get_lesson on a
\* lesson of such a module return 404, and list_modules and list_lessons
\* return no module and no lesson under the subject.
C27_DeleteSubjectHidesDescendants ==
    [][/\ (last'.op = "get_module" /\ UnderDeletedSubject(last'.id))
            => last'.status = 404
       /\ last'.op = "list_modules"
            => \A m \in last'.items : ~UnderDeletedSubject(m)
       /\ (/\ last'.op = "get_lesson"
           /\ Exists(lessons, last'.id)
           /\ UnderDeletedSubject(lessons[last'.id].module_id))
            => last'.status = 404
       /\ last'.op = "list_lessons"
            => \A l \in last'.items : ~UnderDeletedSubject(lessons[l].module_id)
      ]_vars

\* A question has a non-empty text, exactly 4 options and an integer
\* answerIndex in 0..3: as the generator delivers it, and as it is stored
WellFormedRaw(q) ==
    /\ Strip(q.question) # ""
    /\ Len(q.options) = 4
    /\ q.answerIndex.kind = "int"
    /\ q.answerIndex.val \in 0..3

WellFormedStored(q) ==
    /\ q.question # ""
    /\ Len(q.options) = 4
    /\ q.kind = "int"
    /\ q.val \in 0..3

\* The generator delivered 3 well-formed questions
DeliveredThree(response) ==
    /\ response.kind = "json"
    /\ Cardinality({i \in 1..Len(response.questions) :
                       WellFormedRaw(response.questions[i])}) >= 3

\* C25: a generate_quiz call that succeeds adds one quiz activity holding
\* exactly 3 well-formed questions; one that does not succeed adds none; and
\* when the generator did not deliver 3 well-formed questions, the call on an
\* existing lesson fails with 503 and adds no activity.
C25_GeneratedQuizWellFormed ==
    [][last'.op = "generate_quiz"
       => /\ last'.status = 200
               => /\ Len(activities') = Len(activities) + 1
                  /\ Len(activities'[Len(activities')].quiz_questions) = 3
                  /\ \A i \in 1..3 :
                        WellFormedStored(activities'[Len(activities')].quiz_questions[i])
          /\ last'.status # 200 => activities' = activities
          /\ (Exists(lessons, last'.id) /\ ~DeliveredThree(last'.response))
               => (last'.status = 503 /\ activities' = activities)
      ]_vars

\* C26: generating a quiz for a lesson that already has one replaces the
\* lesson's question list: after the second generate_quiz has succeeded,
\* the quiz that get_lesson_quiz returns for the lesson holds the questions
\* just generated.
C26_RegenerationReplacesQuiz ==
    [][(/\ last'.op = "generate_quiz"
        /\ last'.status = 200
        /\ LessonQuiz(activities, last'.id) # {})
       => /\ LessonQuiz(activities', last'.id) # {}
          /\ \A i \in LessonQuiz(activities', last'.id) :
                activities'[i].quiz_questions
                   = ParseQuestions(last'.response.questions).questions
      ]_vars

\* Later lessons of the module that are not soft-deleted, and the first of them
LiveLaterLessons(l) == {i \in LaterLessons(l) : ~lessons[i].is_deleted}

LiveSuccessors(l) ==
    {i \in LiveLaterLessons(l) :
        \A j \in LiveLaterLessons(l) : lessons[i].order_index <= lessons[j].order_index}

\* Unlock sentinels among the rows a step added: lesson-level rows with
\* completed = false
AddedSentinels ==
    {i \in 1..Len(AddedRows) : LessonLevel(AddedRows[i]) /\ ~AddedRows[i].completed}

\* C28: submit_quiz never unlocks a soft-deleted lesson.  The lesson named by
\* unlocked_next_lesson_id and by an unlock sentinel is not soft-deleted; and
\* a passing submission on a lesson whose immediate successor is soft-deleted
\* skips it: it returns 200 and unlocks the next lesson that is not
\* soft-deleted, or none when there is none.
C28_DeletedSuccessorSkipped ==
    [][/\ (last'.op = "submit_quiz" /\ last'.status = 200)
            => /\ last'.body.unlocked_next_lesson_id # None
                     => ~lessons[last'.body.unlocked_next_lesson_id].is_deleted
               /\ \A i \in AddedSentinels : ~lessons[AddedRows[i].lesson_id].is_deleted
       /\ (/\ WellFormedSubmission
           /\ last'.locals.passed
           /\ Exists(lessons, activities[last'.activity_id].lesson_id)
           /\ \E d \in ImmediateSuccessors(activities[last'.activity_id].lesson_id) :
                 lessons[d].is_deleted)
            => LET live == LiveSuccessors(activities[last'.activity_id].lesson_id)
               IN  /\ last'.status = 200
                   /\ live = {} => /\ last'.body.unlocked_next_lesson_id = None
                                   /\ AddedSentinels = {}
                   /\ live # {} => /\ last'.body.unlocked_next_lesson_id \in live
                                   /\ \E i \in AddedSentinels :
                                         AddedRows[i].lesson_id
                                            = last'.body.unlocked_next_lesson_id
      ]_vars

\* Pairs <<user, lesson>> with a lesson-level row that is not soft-deleted:
\* with completed = true (Completed), with any such row (Unlocked or
\* Completed, that is, not Locked)
LiveCompletedPairs(rows) ==
    {<<rows[i].user_id, rows[i].lesson_id>> :
        i \in {k \in 1..Len(rows) :
                  LessonLevel(rows[k]) /\ rows[k].completed /\ ~rows[k].is_deleted}}

LiveKnownPairs(rows) ==
    {<<rows[i].user_id, rows[i].lesson_id>> :
        i \in {k \in 1..Len(rows) : LessonLevel(rows[k]) /\ ~rows[k].is_deleted}}

\* The step is a call of submit_quiz or of upsert_progress
ProgressionStep == last'.op \in {"submit_quiz", "upsert_progress"}

\* The step is an upsert_progress call of the user on the lesson with status
\* in_progress, answered 201
UpsertInProgress(user_id, lesson_id) ==
    /\ last'.op = "upsert_progress"
    /\ last'.status = 201
    /\ last'.body.user_id = user_id
    /\ last'.payload.entity_type = "lesson"
    /\ last'.payload.entity_id = lesson_id
    /\ last'.payload.status = "in_progress"

\* C29 as stated: under submit_quiz and upsert_progress calls a lesson that
\* is Completed for a user stays Completed, and a lesson that is Unlocked or
\* Completed never returns to Locked.
C29_LessonStateNeverRegresses ==
    [][ProgressionStep
         => /\ LiveCompletedPairs(progress) \subseteq LiveCompletedPairs(progress')
            /\ LiveKnownPairs(progress) \subseteq LiveKnownPairs(progress')
      ]_vars

\* C29, amended: under submit_quiz and upsert_progress calls a lesson that is
\* Unlocked or Completed for a user never returns to Locked, and a Completed
\* lesson stays Completed unless the step is an upsert_progress call of that
\* user on that lesson with status in_progress.
C29_RegressesOnlyByUpsertInProgress ==
    [][ProgressionStep
         => /\ LiveKnownPairs(progress) \subseteq LiveKnownPairs(progress')
            /\ \A p \in LiveCompletedPairs(progress) \ LiveCompletedPairs(progress') :
                  UpsertInProgress(p[1], p[2])
      ]_vars

\* A lesson is Completed for u1, u2 has a lesson-level row, and the last call,
\* an upsert_progress with status in_progress answered 201, left them so
C29_Witness ==
    /\ last.op = "upsert_progress"
    /\ last.status = 201
    /\ last.payload.status = "in_progress"
    /\ \E l \in 1..Len(lessons) :
          /\ <<"u1", l>> \in LiveCompletedPairs(progress)
          /\ <<last.body.user_id, last.body.lesson_id>> \in LiveKnownPairs(progress)
          /\ <<last.body.user_id, last.body.lesson_id>> # <<"u1", l>>

\* The lesson is not the first of its module: the module has a lesson with a
\* smaller order_index
NotFirstOfModule(l) ==
    \E j \in 1..Len(lessons) :
        /\ lessons[j].module_id = lessons[l].module_id
        /\ lessons[j].order_index < lessons[l].order_index

\* C30: lessons are completed in unlock order.  For every user and every
\* lesson that is not the first of its module, a lesson-level completed = true
\* record comes to exist only when an unlock sentinel of that user for that
\* lesson was recorded before: no step takes a lesson from Locked directly to
\* Completed.
C30_CompletedOnlyAfterUnlocked ==
    [][\A p \in CompletedPairs(progress') \ CompletedPairs(progress) :
          (Exists(lessons, p[2]) /\ NotFirstOfModule(p[2]))
             => p \in UnlockedPairs(progress)
      ]_vars

====
